---- MODULE Spec2Model ----
(***************************************************************************)
(* Model of nds_power.py: gen_sql_from_stream (the query-stream splitter)  *)
(* and run_query_stream (the power-run orchestrator).                      *)
(*                                                                         *)
(* Text is modelled at character level: a Python str is a sequence of      *)
(* one-character strings, so that str.split, str.find, str.replace, the    *)
(* "in" test and slicing are computed the way Python computes them.        *)
(***************************************************************************)
EXTENDS Integers, Sequences, FiniteSets, TLC

(***************************************************************************)
(* Bounds of the model.                                                    *)
(***************************************************************************)
MaxBlocks == 2
MaxStmts == 2
MaxTables == 2
MaxQueries == 2
MaxClock == 2

(***************************************************************************)
(* String literals of the source, and the pieces the input streams are     *)
(* built from.                                                             *)
(***************************************************************************)
StartMarker == <<"-", "-", " ", "s", "t", "a", "r", "t">>
Semi == <<";">>
NewLine == <<"\n">>
Select == <<"s", "e", "l", "e", "c", "t">>
TemplateWord == <<"t", "e", "m", "p", "l", "a", "t", "e">>
Tpl == <<".", "t", "p", "l">>
Part1Tpl == <<"_", "p", "a", "r", "t", "1", ".", "t", "p", "l">>
Part2Tpl == <<"_", "p", "a", "r", "t", "2", ".", "t", "p", "l">>
Slash == <<"/">>
CreateTempViewPrefix == <<"C", "r", "e", "a", "t", "e", "T", "e", "m", "p", "V", "i", "e", "w", " ">>
LoadTimeLabel == <<"L", "o", "a", "d", " ", "T", "i", "m", "e">>
PowerTestTimeLabel == <<"P", "o", "w", "e", "r", " ", "T", "e", "s", "t", " ", "T", "i", "m", "e">>
TotalTimeLabel == <<"T", "o", "t", "a", "l", " ", "T", "i", "m", "e">>
LogHeader == <<"application_id", "query", "time/s">>
SparkAppId == "app-1"
TemplateOffset == 9

\* Pieces of input text (inputs of the model, not literals of the source).
HeaderPrefix == <<" ", "q", " ", "1", " ", "t", "e", "m", "p", "l", "a", "t", "e", " ">>
EndComment == <<"-", "-", " ", "e", "n", "d", "\n">>
Preamble == <<"-", "-", " ", "h", "d", "r", "\n">>
SelectStmt == <<"s", "e", "l", "e", "c", "t", " ", "a">>
OtherStmt == <<"d", "r", "o", "p", " ", "v">>
Name14 == <<"q", "u", "e", "r", "y", "1", "4">>
Name55 == <<"q", "u", "e", "r", "y", "5", "5">>
InputPrefix == <<"i", "n">>
OutDir == <<"o", "u", "t">>
Digits == <<"0", "1", "2", "3", "4", "5", "6", "7", "8", "9">>

(***************************************************************************)
(* Python str operations on character sequences.                           *)
(***************************************************************************)
Min(a, b) == IF a < b THEN a ELSE b
Max(a, b) == IF a > b THEN a ELSE b

\* sub occurs in s at 1-based position i
MatchAt(s, sub, i) ==
    /\ i >= 1
    /\ i + Len(sub) - 1 <= Len(s)
    /\ \A k \in 1..Len(sub) : s[i + k - 1] = sub[k]

\* s.find(sub): 0-based index of the first occurrence, -1 when there is none
Find(s, sub) ==
    LET hits == {i \in 1..Len(s) : MatchAt(s, sub, i)}
    IN  IF hits = {} THEN -1
        ELSE (CHOOSE i \in hits : \A j \in hits : i <= j) - 1

\* sub in s
Contains(s, sub) == Find(s, sub) # -1

\* s[a:b] with Python's treatment of negative and out-of-range indices
Slice(s, a, b) ==
    LET n  == Len(s)
        lo == IF a < 0 THEN Max(a + n, 0) ELSE Min(a, n)
        hi == IF b < 0 THEN Max(b + n, 0) ELSE Min(b, n)
    IN  IF lo >= hi THEN <<>> ELSE SubSeq(s, lo + 1, hi)

\* s.split(sep) for a non-empty separator
RECURSIVE Split(_, _)
Split(s, sep) ==
    LET p == Find(s, sep)
    IN  IF p = -1 THEN <<s>>
        ELSE <<SubSeq(s, 1, p)>> \o Split(SubSeq(s, p + Len(sep) + 1, Len(s)), sep)

\* s.replace(old, new) for a non-empty old
RECURSIVE Replace(_, _, _)
Replace(s, old, new) ==
    LET p == Find(s, old)
    IN  IF p = -1 THEN s
        ELSE SubSeq(s, 1, p) \o new
             \o Replace(SubSeq(s, p + Len(old) + 1, Len(s)), old, new)

\* q[q.find('template')+9: q.find('.tpl')]
QueryName(q) == Slice(q, Find(q, TemplateWord) + TemplateOffset, Find(q, Tpl))

(***************************************************************************)
(* Input streams: an optional preamble followed by up to MaxBlocks blocks, *)
(* each introduced by the start marker.                                    *)
(***************************************************************************)
RECURSIVE Concat(_)
Concat(ss) == IF ss = <<>> THEN <<>> ELSE Head(ss) \o Concat(Tail(ss))

\* Block k of a stream comes from its own template, as in a generated
\* stream, where every template occurs once.
TemplateOf(k) == <<"q", "u", "e", "r", "y", Digits[k + 1]>>
Names == {TemplateOf(k) : k \in 1..MaxBlocks}
StmtKinds == {SelectStmt, OtherStmt}
StmtSeqs == UNION {[1..n -> StmtKinds] : n \in 0..MaxStmts}
Header(n) == HeaderPrefix \o n \o Tpl \o NewLine
StmtsText(ss) == Concat([i \in 1..Len(ss) |-> ss[i] \o Semi \o NewLine])

\* Shapes of a block body: with a header line, statements and an end comment
\* (no statement means no semicolon at all), or bare statements.
BodyShapes ==
    {<<"header", ss>> : ss \in StmtSeqs}
    \cup {<<"bare", <<SelectStmt, SelectStmt>>>>, <<"bare", <<>>>>}

BodyText(k, shape) ==
    IF shape[1] = "header"
    THEN Header(TemplateOf(k)) \o StmtsText(shape[2]) \o EndComment
    ELSE StmtsText(shape[2])

Streams ==
    {pre \o Concat([k \in 1..Len(shapes) |-> StartMarker \o BodyText(k, shapes[k])]) :
        pre \in {<<>>, Preamble},
        shapes \in UNION {[1..n -> BodyShapes] : n \in 0..MaxBlocks}}

VARIABLES
    pc,                  \* position in the program
    stream,              \* text of the query stream file
    all_queries,         \* gen_sql_from_stream: blocks after the partition
    extended_queries,    \* gen_sql_from_stream: units emitted so far
    qi,                  \* gen_sql_from_stream: 1-based index of q in all_queries
    catalog,             \* get_schemas(False).keys(), in order
    query_list,          \* run_query_stream argument
    output_path,         \* <<>> for None, <<p>> for the string p
    output_format,
    execution_time_list,
    now,                 \* the clock read by time.time()
    total_time_start, load_start, start, power_start, total_time_end,
    ti,                  \* 1-based index of table_name in catalog
    qn,                  \* 1-based index of q in query_list
    df,                  \* the lazy result of spark_session.sql(q): <<>> or <<q>>
    query_name,
    calls,               \* calls received by the Spark session, in order
    time_log             \* the file at time_log_output_path

vars == <<pc, stream, all_queries, extended_queries, qi, catalog, query_list,
          output_path, output_format, execution_time_list, now,
          total_time_start, load_start, start, power_start, total_time_end,
          ti, qn, df, query_name, calls, time_log>>

genVars == <<stream, all_queries, extended_queries, qi>>
runVars == <<catalog, output_path, output_format, execution_time_list, now,
             total_time_start, load_start, start, power_start, total_time_end,
             ti, qn, df, query_name, calls, time_log>>

NoFile == [exists |-> FALSE, rows |-> <<>>]

RunLocalsInit ==
    /\ execution_time_list = <<>>
    /\ now = 0
    /\ total_time_start = 0 /\ load_start = 0 /\ start = 0
    /\ power_start = 0 /\ total_time_end = 0
    /\ ti = 1 /\ qn = 1
    /\ df = <<>>
    /\ query_name = <<>>
    /\ calls = <<>>
    /\ time_log = NoFile

(***************************************************************************)
(* gen_sql_from_stream                                                     *)
(***************************************************************************)
InitSplit ==
    /\ pc = "gen_read"
    /\ stream \in Streams
    /\ all_queries = <<>>
    /\ extended_queries = <<>>
    /\ qi = 1
    /\ catalog = <<>>
    /\ query_list = <<>>
    /\ output_path = <<>>
    /\ output_format = "parquet"
    /\ RunLocalsInit

\* lines 52-56: read the file, partition on the start marker, drop the text
\* before the first marker
GenRead ==
    /\ pc = "gen_read"
    /\ all_queries' = Tail(Split(stream, StartMarker))
    /\ extended_queries' = <<>>
    /\ qi' = 1
    /\ pc' = "gen_loop"
    /\ UNCHANGED <<stream, query_list>>
    /\ UNCHANGED runVars

\* line 58: q.split(';')[1] on a block without a semicolon
GenIndexError ==
    /\ pc = "gen_loop"
    /\ qi <= Len(all_queries)
    /\ Len(Split(all_queries[qi], Semi)) < 2
    /\ pc' = "gen_raised"
    /\ UNCHANGED <<genVars, query_list>>
    /\ UNCHANGED runVars

\* Variant of SplitUnits: the header of the second unit keeps the bare
\* template reference.
SplitUnitsBareHead(q) ==
    LET split_q == Split(q, Semi)
        part_1  == Replace(split_q[1], Tpl, Part1Tpl) \o Semi
        head    == Split(split_q[1], NewLine)[1]
        part_2  == head \o NewLine \o split_q[2] \o Semi
    IN  <<part_1, part_2>>

\* Variant of SplitUnits: the second part is emitted before the first.
SplitUnitsSwapped(q) ==
    LET split_q == Split(q, Semi)
        part_1  == Replace(split_q[1], Tpl, Part1Tpl) \o Semi
        head    == Split(split_q[1], NewLine)[1]
        part_2  == Replace(head, Tpl, Part2Tpl) \o NewLine \o split_q[2] \o Semi
    IN  <<part_2, part_1>>

\* lines 59-71: the units of a block that is split
SplitUnits(q) ==
    LET split_q == Split(q, Semi)
        part_1  == Replace(split_q[1], Tpl, Part1Tpl) \o Semi
        head    == Split(split_q[1], NewLine)[1]
        part_2  == Replace(head, Tpl, Part2Tpl) \o NewLine \o split_q[2] \o Semi
    IN  <<part_1, part_2>>

\* Variant of KeepUnits: the unsplit block is cut after its first statement.
KeepUnitsFirstStatement(q) == <<Split(q, Semi)[1] \o Semi>>

\* lines 72-73: the unit of a block that is not split
KeepUnits(q) == <<q>>

\* lines 58-71
GenSplit ==
    /\ pc = "gen_loop"
    /\ qi <= Len(all_queries)
    /\ Len(Split(all_queries[qi], Semi)) >= 2
    /\ Contains(Split(all_queries[qi], Semi)[2], Select)
    /\ extended_queries' = extended_queries \o SplitUnits(all_queries[qi])
    /\ qi' = qi + 1
    /\ UNCHANGED <<pc, stream, all_queries, query_list>>
    /\ UNCHANGED runVars

\* lines 58, 72-73
GenKeep ==
    /\ pc = "gen_loop"
    /\ qi <= Len(all_queries)
    /\ Len(Split(all_queries[qi], Semi)) >= 2
    /\ ~Contains(Split(all_queries[qi], Semi)[2], Select)
    /\ extended_queries' = extended_queries \o KeepUnits(all_queries[qi])
    /\ qi' = qi + 1
    /\ UNCHANGED <<pc, stream, all_queries, query_list>>
    /\ UNCHANGED runVars

\* line 76: add "-- start" back to each unit
AddStart(qs) == [i \in 1..Len(qs) |-> StartMarker \o qs[i]]

\* lines 75-77 and 174: the loop is over, return the list to the caller
GenReturn ==
    /\ pc = "gen_loop"
    /\ qi > Len(all_queries)
    /\ extended_queries' = AddStart(extended_queries)
    /\ query_list' = extended_queries'
    /\ pc' = "gen_returned"
    /\ UNCHANGED <<stream, all_queries, qi>>
    /\ UNCHANGED runVars

NextSplit == GenRead \/ GenIndexError \/ GenSplit \/ GenKeep \/ GenReturn

SpecSplit == InitSplit /\ [][NextSplit]_vars

(***************************************************************************)
(* run_query_stream                                                        *)
(***************************************************************************)
\* The schema catalog: table names in the order get_schemas yields them.
TableName(i) == <<"t", Digits[i + 1]>>
Catalogs == {[i \in 1..n |-> TableName(i)] : n \in 0..MaxTables}

\* Query units handed to run_query_stream, as gen_sql_from_stream emits them.
UnitNames == {Name14, Name55}
UnitOf(n) == StartMarker \o Header(n) \o StmtsText(<<SelectStmt>>) \o EndComment
QueryLists == UNION {[1..k -> {UnitOf(n) : n \in UnitNames}] : k \in 0..MaxQueries}

\* output_path: None, the empty string, or a directory
OutputPaths == {<<>>, <<(<<>>)>>, <<OutDir>>}
OutputFormats == {"parquet", "csv"}

InitRun ==
    /\ pc = "run_begin"
    /\ stream = <<>>
    /\ all_queries = <<>>
    /\ extended_queries = <<>>
    /\ qi = 1
    /\ catalog \in Catalogs
    /\ query_list \in QueryLists
    /\ output_path \in OutputPaths
    /\ output_format \in OutputFormats
    /\ RunLocalsInit

\* Time that passes while a statement runs; the clock is capped at MaxClock.
Elapses == {d \in 0..1 : now + d <= MaxClock}

\* Variant of TablesRemain: the loop stops one table early.
TablesRemainButLast == ti < Len(catalog)

\* line 107: the loop over the catalog has a table left
TablesRemain == ti <= Len(catalog)

\* line 123: the loop over query_list has a unit left
QueriesRemain == qn <= Len(query_list)

\* line 131: not output_path (None and '' are both falsy)
NotOutputPath == IF Len(output_path) = 0 THEN TRUE ELSE Len(output_path[1]) = 0

\* lines 98-104
RunBegin ==
    /\ pc = "run_begin"
    /\ execution_time_list' = <<>>
    /\ total_time_start' = now
    /\ calls' = Append(calls, [op |-> "getOrCreate", ok |-> TRUE])
    /\ \E d \in Elapses : now' = now + d
    /\ pc' = "load_start"
    /\ UNCHANGED <<genVars, query_list, catalog, output_path, output_format,
                   load_start, start, power_start, total_time_end, ti, qn, df,
                   query_name, time_log>>

\* line 106
LoadStart ==
    /\ pc = "load_start"
    /\ load_start' = now
    /\ ti' = 1
    /\ pc' = "table_loop"
    /\ UNCHANGED <<genVars, query_list, catalog, output_path, output_format,
                   execution_time_list, now, total_time_start, start,
                   power_start, total_time_end, qn, df, query_name, calls,
                   time_log>>

\* lines 107-108
TableStart ==
    /\ pc = "table_loop"
    /\ TablesRemain
    /\ start' = now
    /\ pc' = "table_register"
    /\ UNCHANGED <<genVars, query_list, catalog, output_path, output_format,
                   execution_time_list, now, total_time_start, load_start,
                   power_start, total_time_end, ti, qn, df, query_name, calls,
                   time_log>>

\* lines 109-111: the call the session receives for table ti
RegisterCall(okay) ==
    [op   |-> "createOrReplaceTempView",
     path |-> InputPrefix \o Slash \o catalog[ti],
     name |-> catalog[ti],
     ok   |-> okay]

\* lines 109-111
TableRegister ==
    /\ pc = "table_register"
    /\ calls' = Append(calls, RegisterCall(TRUE))
    /\ \E d \in Elapses : now' = now + d
    /\ pc' = "table_end"
    /\ UNCHANGED <<genVars, query_list, catalog, output_path, output_format,
                   execution_time_list, total_time_start, load_start, start,
                   power_start, total_time_end, ti, qn, df, query_name,
                   time_log>>

\* Variant of TableRegisterFails: the error is swallowed and the loop goes on.
TableRegisterFailsSwallowed ==
    /\ pc = "table_register"
    /\ calls' = Append(calls, RegisterCall(FALSE))
    /\ pc' = "table_end"
    /\ UNCHANGED <<genVars, query_list, catalog, output_path, output_format,
                   execution_time_list, now, total_time_start, load_start,
                   start, power_start, total_time_end, ti, qn, df, query_name,
                   time_log>>

\* lines 109-111: the read or the registration raises; nothing catches it
TableRegisterFails ==
    /\ pc = "table_register"
    /\ calls' = Append(calls, RegisterCall(FALSE))
    /\ pc' = "aborted"
    /\ UNCHANGED <<genVars, query_list, catalog, output_path, output_format,
                   execution_time_list, now, total_time_start, load_start,
                   start, power_start, total_time_end, ti, qn, df, query_name,
                   time_log>>

\* lines 112-116
TableEnd ==
    /\ pc = "table_end"
    /\ execution_time_list' = Append(execution_time_list,
           <<SparkAppId, CreateTempViewPrefix \o catalog[ti], now - start>>)
    /\ ti' = ti + 1
    /\ pc' = "table_loop"
    /\ UNCHANGED <<genVars, query_list, catalog, output_path, output_format,
                   now, total_time_start, load_start, start, power_start,
                   total_time_end, qn, df, query_name, calls, time_log>>

\* Variant of LoadEnd: the aggregate "Load Time" entry is not appended.
LoadEndNoEntry ==
    /\ pc = "table_loop"
    /\ ~TablesRemain
    /\ pc' = "power_start"
    /\ UNCHANGED <<genVars, query_list, catalog, output_path, output_format,
                   execution_time_list, now, total_time_start, load_start,
                   start, power_start, total_time_end, ti, qn, df, query_name,
                   calls, time_log>>

\* lines 117-120
LoadEnd ==
    /\ pc = "table_loop"
    /\ ~TablesRemain
    /\ execution_time_list' = Append(execution_time_list,
           <<SparkAppId, LoadTimeLabel, now - load_start>>)
    /\ pc' = "power_start"
    /\ UNCHANGED <<genVars, query_list, catalog, output_path, output_format,
                   now, total_time_start, load_start, start, power_start,
                   total_time_end, ti, qn, df, query_name, calls, time_log>>

\* line 122
PowerStart ==
    /\ pc = "power_start"
    /\ power_start' = now
    /\ qn' = 1
    /\ pc' = "query_loop"
    /\ UNCHANGED <<genVars, query_list, catalog, output_path, output_format,
                   execution_time_list, now, total_time_start, load_start,
                   start, total_time_end, ti, df, query_name, calls, time_log>>

\* lines 123-124: df = spark_session.sql(q)
QuerySql ==
    /\ pc = "query_loop"
    /\ QueriesRemain
    /\ df' = <<query_list[qn]>>
    /\ calls' = Append(calls, [op |-> "sql", text |-> query_list[qn], ok |-> TRUE])
    /\ \E d \in Elapses : now' = now + d
    /\ pc' = "query_tag"
    /\ UNCHANGED <<genVars, query_list, catalog, output_path, output_format,
                   execution_time_list, total_time_start, load_start, start,
                   power_start, total_time_end, ti, qn, query_name, time_log>>

\* line 124: the engine rejects the text; nothing catches the error
QuerySqlFails ==
    /\ pc = "query_loop"
    /\ QueriesRemain
    /\ calls' = Append(calls, [op |-> "sql", text |-> query_list[qn], ok |-> FALSE])
    /\ pc' = "aborted"
    /\ UNCHANGED <<genVars, query_list, catalog, output_path, output_format,
                   execution_time_list, now, total_time_start, load_start,
                   start, power_start, total_time_end, ti, qn, df, query_name,
                   time_log>>

\* lines 125-129: extract the display name and tag the job group with it
QueryTag ==
    /\ pc = "query_tag"
    /\ query_name' = QueryName(query_list[qn])
    /\ calls' = Append(calls, [op |-> "setJobGroup", name |-> query_name', ok |-> TRUE])
    /\ pc' = "query_timer"
    /\ UNCHANGED <<genVars, query_list, catalog, output_path, output_format,
                   execution_time_list, now, total_time_start, load_start,
                   start, power_start, total_time_end, ti, qn, df, time_log>>

\* line 130
QueryTimerStart ==
    /\ pc = "query_timer"
    /\ start' = now
    /\ pc' = "query_action"
    /\ UNCHANGED <<genVars, query_list, catalog, output_path, output_format,
                   execution_time_list, now, total_time_start, load_start,
                   power_start, total_time_end, ti, qn, df, query_name, calls,
                   time_log>>

\* line 132: df.collect()
CollectCall(okay) == [op |-> "collect", df |-> df[1], ok |-> okay]

\* Variant of SaveCall: the result is appended to what the path holds.
SaveCallAppend(okay) ==
    [op     |-> "save",
     df     |-> df[1],
     format |-> output_format,
     mode   |-> "append",
     path   |-> output_path[1] \o Slash \o query_name,
     ok     |-> okay]

\* lines 134-135: df.write.format(output_format).mode('overwrite').save(...)
SaveCall(okay) ==
    [op     |-> "save",
     df     |-> df[1],
     format |-> output_format,
     mode   |-> "overwrite",
     path   |-> output_path[1] \o Slash \o query_name,
     ok     |-> okay]

\* lines 131-135: the one action applied to df
ActionCall(okay) == IF NotOutputPath THEN CollectCall(okay) ELSE SaveCall(okay)

\* lines 131-132
QueryCollect ==
    /\ pc = "query_action"
    /\ NotOutputPath
    /\ calls' = Append(calls, ActionCall(TRUE))
    /\ \E d \in Elapses : now' = now + d
    /\ pc' = "query_end"
    /\ UNCHANGED <<genVars, query_list, catalog, output_path, output_format,
                   execution_time_list, total_time_start, load_start, start,
                   power_start, total_time_end, ti, qn, df, query_name,
                   time_log>>

\* lines 133-135
QueryWrite ==
    /\ pc = "query_action"
    /\ ~NotOutputPath
    /\ calls' = Append(calls, ActionCall(TRUE))
    /\ \E d \in Elapses : now' = now + d
    /\ pc' = "query_end"
    /\ UNCHANGED <<genVars, query_list, catalog, output_path, output_format,
                   execution_time_list, total_time_start, load_start, start,
                   power_start, total_time_end, ti, qn, df, query_name,
                   time_log>>

\* lines 131-135: executing the query or writing its result raises
QueryActionFails ==
    /\ pc = "query_action"
    /\ calls' = Append(calls, ActionCall(FALSE))
    /\ pc' = "aborted"
    /\ UNCHANGED <<genVars, query_list, catalog, output_path, output_format,
                   execution_time_list, now, total_time_start, load_start,
                   start, power_start, total_time_end, ti, qn, df, query_name,
                   time_log>>

\* lines 136-139: end = time.time() is read first; the print, the append and
\* the step to the next unit take time after it
QueryEnd ==
    /\ pc = "query_end"
    /\ execution_time_list' = Append(execution_time_list,
           <<SparkAppId, query_name, now - start>>)
    /\ qn' = qn + 1
    /\ \E d \in Elapses : now' = now + d
    /\ pc' = "query_loop"
    /\ UNCHANGED <<genVars, query_list, catalog, output_path, output_format,
                   total_time_start, load_start, start, power_start,
                   total_time_end, ti, df, query_name, calls, time_log>>

\* Variant of PowerEntry: measured from the start of the run.
PowerEntryFromRunStart(t_end) ==
    <<SparkAppId, PowerTestTimeLabel, t_end - total_time_start>>

\* lines 141, 145-146: the "Power Test Time" entry
PowerEntry(t_end) == <<SparkAppId, PowerTestTimeLabel, t_end - power_start>>

\* lines 142, 147-148: the "Total Time" entry
TotalEntry(t_end) == <<SparkAppId, TotalTimeLabel, t_end - total_time_start>>

\* lines 140-148
PowerEnd ==
    /\ pc = "query_loop"
    /\ ~QueriesRemain
    /\ total_time_end' = now
    /\ execution_time_list' =
           execution_time_list \o <<PowerEntry(now), TotalEntry(now)>>
    /\ pc' = "log_open"
    /\ UNCHANGED <<genVars, query_list, catalog, output_path, output_format,
                   now, total_time_start, load_start, start, power_start, ti,
                   qn, df, query_name, calls, time_log>>

\* lines 151-152: open(time_log_output_path, 'w') creates or truncates the file
LogOpen ==
    /\ pc = "log_open"
    /\ time_log' = [exists |-> TRUE, rows |-> <<>>]
    /\ pc' = "log_header"
    /\ UNCHANGED <<genVars, query_list, catalog, output_path, output_format,
                   execution_time_list, now, total_time_start, load_start,
                   start, power_start, total_time_end, ti, qn, df, query_name,
                   calls>>

\* lines 153-154
LogWriteHeader ==
    /\ pc = "log_header"
    /\ time_log' = [time_log EXCEPT !.rows = Append(@, LogHeader)]
    /\ pc' = "log_rows"
    /\ UNCHANGED <<genVars, query_list, catalog, output_path, output_format,
                   execution_time_list, now, total_time_start, load_start,
                   start, power_start, total_time_end, ti, qn, df, query_name,
                   calls>>

\* line 155, and the end of the with block
LogWriteRows ==
    /\ pc = "log_rows"
    /\ time_log' = [time_log EXCEPT !.rows = @ \o execution_time_list]
    /\ pc' = "done"
    /\ UNCHANGED <<genVars, query_list, catalog, output_path, output_format,
                   execution_time_list, now, total_time_start, load_start,
                   start, power_start, total_time_end, ti, qn, df, query_name,
                   calls>>

NextRun ==
    \/ RunBegin \/ LoadStart
    \/ TableStart \/ TableRegister \/ TableRegisterFails \/ TableEnd \/ LoadEnd
    \/ PowerStart
    \/ QuerySql \/ QuerySqlFails \/ QueryTag \/ QueryTimerStart
    \/ QueryCollect \/ QueryWrite \/ QueryActionFails \/ QueryEnd
    \/ PowerEnd
    \/ LogOpen \/ LogWriteHeader \/ LogWriteRows

SpecRun == InitRun /\ [][NextRun]_vars

(***************************************************************************)
(* Properties of gen_sql_from_stream, stated on the input text and the     *)
(* returned list.                                                          *)
(***************************************************************************)
\* The blocks of a stream (the text after each start marker), each with its
\* semicolon-delimited segments and whether its second segment exists and
\* contains the select keyword.
BlockTable(text) ==
    LET bs   == Tail(Split(text, StartMarker))
        segs == [k \in 1..Len(bs) |-> Split(bs[k], Semi)]
    IN  [k \in 1..Len(bs) |->
            [text      |-> bs[k],
             segments  |-> segs[k],
             qualifies |-> IF Len(segs[k]) >= 2
                           THEN Contains(segs[k][2], Select) ELSE FALSE]]

\* The suffixes that name the two parts of a split template.
Part1Suffix == <<"_", "p", "a", "r", "t", "1">>
Part2Suffix == <<"_", "p", "a", "r", "t", "2">>

\* The first line of a text, without its line terminator.
FirstLine(b) == IF Find(b, NewLine) = -1 THEN b ELSE SubSeq(b, 1, Find(b, NewLine))

\* The block starts with a header line that names a template.
HasHeaderLine(b) ==
    \E n \in Names : Len(b) >= Len(Header(n)) /\ SubSeq(b, 1, Len(Header(n))) = Header(n)

\* The template name of a block with a header line.
TemplateName(b) ==
    CHOOSE n \in Names : SubSeq(b, 1, Len(Header(n))) = Header(n)

\* The text with suffix inserted in front of its first ".tpl".
WithSuffix(text, suffix) ==
    LET p == Find(text, Tpl)
    IN  SubSeq(text, 1, p) \o suffix \o SubSeq(text, p + 1, Len(text))

\* Index in the output of the first unit that comes from block k.
UnitIndex(tab, k) == k + Cardinality({j \in 1..(k - 1) : tab[j].qualifies})

\* Number of units the blocks expand to.
UnitCount(tab) == Len(tab) + Cardinality({j \in 1..Len(tab) : tab[j].qualifies})

\* A stream in the documented format: every block has a header line naming
\* its template and at least one semicolon-terminated statement.
WellFormed(tab) ==
    \A k \in 1..Len(tab) :
        HasHeaderLine(tab[k].text) /\ Len(tab[k].segments) >= 2

\* The display names a block contributes.
ExpectedNames(blk) ==
    IF blk.qualifies
    THEN <<TemplateName(blk.text) \o Part1Suffix, TemplateName(blk.text) \o Part2Suffix>>
    ELSE <<TemplateName(blk.text)>>

\* C3: for a well-formed stream the display names extracted from the
\* returned units are the template names of the blocks in block order,
\* a split block giving <name>_part1 then <name>_part2 and every other
\* block giving its one name.
C3_OrderPreserving ==
    pc = "gen_returned" =>
        LET tab == BlockTable(stream)
        IN  WellFormed(tab) =>
              [i \in 1..Len(extended_queries) |-> QueryName(extended_queries[i])]
                = Concat([k \in 1..Len(tab) |-> ExpectedNames(tab[k])])

C3_Witness ==
    /\ pc = "gen_returned"
    /\ LET tab == BlockTable(stream)
       IN  /\ WellFormed(tab)
           /\ Len(tab) >= 2
           /\ tab[1].qualifies
           /\ ~tab[2].qualifies

\* C4: a block with a header line whose second segment contains select is
\* emitted as exactly two units: marker + first segment with the _part1
\* template reference + ";", then marker + header line with the _part2
\* template reference, the second segment and ";".
C4_SplitBlockUnits ==
    pc = "gen_returned" =>
        LET tab == BlockTable(stream)
        IN  /\ Len(extended_queries) = UnitCount(tab)
            /\ \A k \in 1..Len(tab) :
                 (tab[k].qualifies /\ HasHeaderLine(tab[k].text)) =>
                    /\ extended_queries[UnitIndex(tab, k)] =
                         StartMarker \o WithSuffix(tab[k].segments[1], Part1Suffix) \o Semi
                    /\ extended_queries[UnitIndex(tab, k) + 1] =
                         StartMarker \o WithSuffix(FirstLine(tab[k].text), Part2Suffix)
                           \o NewLine \o tab[k].segments[2] \o Semi

C4_Witness ==
    /\ pc = "gen_returned"
    /\ LET tab == BlockTable(stream)
       IN  \E k \in 1..Len(tab) : tab[k].qualifies /\ HasHeaderLine(tab[k].text)

\* C5: a block whose second segment does not contain select is emitted as
\* exactly one unit, the start marker followed by the block's text unchanged.
C5_PlainBlockUnchanged ==
    pc = "gen_returned" =>
        LET tab == BlockTable(stream)
        IN  /\ Len(extended_queries) = UnitCount(tab)
            /\ \A k \in 1..Len(tab) :
                 (Len(tab[k].segments) >= 2 /\ ~tab[k].qualifies) =>
                    extended_queries[UnitIndex(tab, k)] = StartMarker \o tab[k].text

C5_Witness ==
    /\ pc = "gen_returned"
    /\ LET tab == BlockTable(stream)
       IN  \E k \in 1..Len(tab) : Len(tab[k].segments) >= 3 /\ ~tab[k].qualifies

\* C10: gen_sql_from_stream returns normally for every input text: no start
\* marker gives the empty list, and a block that does not qualify for
\* splitting, a block without any semicolon included, is emitted unmodified
\* as one unit instead of raising.
C10_ReturnsNormally ==
    /\ pc # "gen_raised"
    /\ (pc = "gen_returned" /\ ~Contains(stream, StartMarker)) => extended_queries = <<>>
    /\ pc = "gen_returned" =>
         LET tab == BlockTable(stream)
         IN  \A k \in 1..Len(tab) :
                ~tab[k].qualifies =>
                   extended_queries[UnitIndex(tab, k)] = StartMarker \o tab[k].text

(***************************************************************************)
(* Properties of run_query_stream, stated on the calls the Spark session   *)
(* received, the timing list and the log file.                             *)
(***************************************************************************)
RECURSIVE SumSeq(_)
SumSeq(xs) == IF xs = <<>> THEN 0 ELSE Head(xs) + SumSeq(Tail(xs))

\* The template name a query unit of QueryLists was built from.
NameOfUnit(u) == CHOOSE n \in UnitNames : u = UnitOf(n)

\* An output location was supplied (None and the empty string are not one).
OutputSupplied == Len(output_path) = 1 /\ output_path[1] # <<>>

IsRegisterCall(c) == c.op = "createOrReplaceTempView"
IsQueryCall(c) == c.op \in {"sql", "collect", "save"}
IsActionCall(c) == c.op \in {"collect", "save"}

\* The tables registered so far, in registration order.
Registered ==
    LET rs == SelectSeq(calls, IsRegisterCall)
    IN  [i \in 1..Len(rs) |-> rs[i].name]

\* Positions of the entries of a complete timing list.
QueryEntryElapsed ==
    [k \in 1..Len(query_list) |-> execution_time_list[Len(catalog) + 1 + k][3]]
LoadTimeElapsed == execution_time_list[Len(catalog) + 1][3]
PowerTestElapsed == execution_time_list[Len(execution_time_list) - 1][3]
TotalElapsed == execution_time_list[Len(execution_time_list)][3]

\* C1: once a registration, a query submission or a result action has
\* raised, the run is aborted at that call: it is the last call the session
\* ever receives and the timing log is never opened or written.
C1_AbortOnError ==
    \A i \in 1..Len(calls) :
        ~calls[i].ok =>
            /\ i = Len(calls)
            /\ pc = "aborted"
            /\ time_log = NoFile

C1_Witness ==
    /\ pc = "aborted"
    /\ calls[Len(calls)].op = "save"
    /\ Len(execution_time_list) = Len(catalog) + 2
    /\ Len(catalog) >= 1
    /\ Len(query_list) >= 2

\* C2: a completed run has T + 1 + Q + 2 timing entries: one
\* "CreateTempView <table>" per table in catalog order, "Load Time", one per
\* query unit in list order, "Power Test Time", "Total Time"; the log holds
\* the header and then the same rows in the same order.
C2_TimingSequence ==
    pc = "done" =>
        /\ Len(execution_time_list) = Len(catalog) + 1 + Len(query_list) + 2
        /\ [i \in 1..Len(execution_time_list) |-> execution_time_list[i][2]] =
               [i \in 1..Len(catalog) |-> CreateTempViewPrefix \o catalog[i]]
               \o <<LoadTimeLabel>>
               \o [k \in 1..Len(query_list) |-> NameOfUnit(query_list[k])]
               \o <<PowerTestTimeLabel, TotalTimeLabel>>
        /\ time_log = [exists |-> TRUE, rows |-> <<LogHeader>> \o execution_time_list]

C2_Witness ==
    /\ pc = "done"
    /\ Len(catalog) >= 2
    /\ Len(query_list) >= 2
    /\ query_list[1] # query_list[2]

\* The phases of a run.
Phase(p) ==
    CASE p = "run_begin" -> "INIT"
      [] p \in {"load_start", "table_loop", "table_register", "table_end"} -> "LOADING_TABLES"
      [] p \in {"power_start", "query_loop", "query_tag", "query_timer",
                "query_action", "query_end"} -> "EXECUTING_QUERIES"
      [] p \in {"log_open", "log_header", "log_rows"} -> "FINALIZING"
      [] p = "done" -> "DONE"
      [] OTHER -> "ABORTED"

PhaseRank(ph) ==
    CASE ph = "INIT" -> 0
      [] ph = "LOADING_TABLES" -> 1
      [] ph = "EXECUTING_QUERIES" -> 2
      [] ph = "FINALIZING" -> 3
      [] ph = "DONE" -> 4
      [] OTHER -> 9

C6_State ==
    \* every catalog table is registered before the first query is submitted
    /\ (\E j \in 1..Len(calls) : IsQueryCall(calls[j])) => Registered = catalog
    \* no table is registered after a query has started
    /\ \A i, j \in 1..Len(calls) :
          (i < j /\ IsQueryCall(calls[i])) => ~IsRegisterCall(calls[j])
    \* the log is written only after the last query has finished
    /\ time_log.exists =>
          /\ Len(SelectSeq(calls, IsActionCall)) = Len(query_list)
          /\ Len(execution_time_list) = Len(catalog) + 1 + Len(query_list) + 2
          /\ Phase(pc) \in {"FINALIZING", "DONE"}
    \* the tables are loaded whatever the query list is
    /\ Phase(pc) \in {"EXECUTING_QUERIES", "FINALIZING", "DONE"} =>
          /\ Registered = catalog
          /\ execution_time_list[Len(catalog) + 1][2] = LoadTimeLabel

C6_Step ==
    \/ Phase(pc') = Phase(pc)
    \/ PhaseRank(Phase(pc')) = PhaseRank(Phase(pc)) + 1
    \/ Phase(pc') = "ABORTED" /\ Phase(pc) # "DONE"

\* C6: a run goes through INIT, LOADING_TABLES, EXECUTING_QUERIES,
\* FINALIZING, DONE in that order without skipping one (or to ABORTED):
\* all tables are registered before the first query, none after, the log is
\* written only after the last query, and the tables are loaded even when
\* the query list is empty.
C6_PhaseOrder == [][C6_Step]_vars /\ []C6_State

C6_Witness ==
    /\ pc = "done"
    /\ query_list = <<>>
    /\ Len(catalog) >= 2
    /\ Registered = catalog

\* The calls a completed run makes for one query unit.
ExpectedQueryCalls(q) ==
    <<[op |-> "sql", text |-> q, ok |-> TRUE],
      IF OutputSupplied
      THEN [op     |-> "save",
            df     |-> q,
            format |-> output_format,
            mode   |-> "overwrite",
            path   |-> output_path[1] \o Slash \o NameOfUnit(q),
            ok     |-> TRUE]
      ELSE [op |-> "collect", df |-> q, ok |-> TRUE]>>

\* C7: in a completed run every query unit is submitted exactly once, in
\* list order, and evaluated by exactly one action: written to
\* <output_location>/<query_name> in the requested format in overwrite mode
\* when an output location was supplied, collected otherwise.
C7_EachUnitOnce ==
    pc = "done" =>
        SelectSeq(calls, IsQueryCall) =
            Concat([k \in 1..Len(query_list) |-> ExpectedQueryCalls(query_list[k])])

C7_Witness ==
    /\ pc = "done"
    /\ Len(query_list) >= 2
    /\ query_list[1] # query_list[2]
    /\ OutputSupplied
    /\ output_format = "csv"

\* C8 as stated: "Power Test Time" is the sum of the elapsed values recorded
\* for the query units, and "Total Time" the wall time of the run.
C8_PowerIsSum ==
    pc = "done" =>
        /\ PowerTestElapsed = SumSeq(QueryEntryElapsed)
        /\ TotalElapsed = now

\* C8 amended: "Power Test Time" is the wall time from the start of the
\* query loop to its end; it is at least the sum of the elapsed values of
\* the query units and at most the run's time after the load phase.
\* "Total Time" is the wall time since the start of the run.
C8_PowerIsLoopWallTime ==
    pc = "done" =>
        /\ PowerTestElapsed = total_time_end - power_start
        /\ PowerTestElapsed >= SumSeq(QueryEntryElapsed)
        /\ PowerTestElapsed <= TotalElapsed - LoadTimeElapsed
        /\ TotalElapsed = now

C8_Witness ==
    /\ pc = "done"
    /\ Len(query_list) >= 1
    /\ LoadTimeElapsed >= 1
    /\ PowerTestElapsed > SumSeq(QueryEntryElapsed)

\* The number of calls with the given op among the first j calls.
CallCount(op, j) == Cardinality({i \in 1..j : calls[i].op = op})

\* C9: for each query unit the context is tagged with the display name
\* (and the timer started) before the unit's SQL text is submitted.
C9_TagBeforeSubmit ==
    \A j \in 1..Len(calls) :
        calls[j].op = "sql" => CallCount("setJobGroup", j) >= CallCount("sql", j)

====
